---- MODULE Spec2Model ----
(***************************************************************************)
(* Control-flow model of src/experiment.py: main(), Configs.run(),         *)
(* Configs.train() and Configs.sample().                                   *)
(*                                                                         *)
(* Tensors are abstracted to one entry per sample of the batch.  The entry *)
(* of a sample batch x is the index of its position in the reverse chain   *)
(* (x_T is the initial noise, x_0 the generated image).  The trainable     *)
(* parameters are abstracted to a version number.  Every call into a       *)
(* collaborator (data loader, optimizer, tracker, file system, ...) may    *)
(* raise; the source has no try/except, so a raised exception unwinds      *)
(* sample()/train(), run() and main().                                     *)
(***************************************************************************)
EXTENDS Integers, Sequences, FiniteSets, TLC

\* ---- bounds of the model ------------------------------------------------
MaxSteps   == 2   \* n_steps ranges over 1..MaxSteps
MaxBatches == 2   \* batches per epoch delivered by the data loader, 1..MaxBatches
MaxSamples == 2   \* n_samples ranges over 1..MaxSamples
MaxClock   == 1   \* readings of datetime.now(), at second resolution, 0..MaxClock

\* ---- program constants --------------------------------------------------
EpochsDefault  == 10    \* class attribute Configs.epochs
EpochsOverride == 100   \* 'epochs' in the dictionary passed to experiment.configs

VARIABLES
    pc,           \* position of the single thread of control
    fail_at,      \* call site whose exception ended the run, "none" otherwise
    device,       \* Configs.device
    n_steps,      \* Configs.n_steps (T)
    n_samples,    \* Configs.n_samples
    n_batches,    \* number of batches len(data_loader) yields per epoch
    epochs,       \* Configs.epochs
    epoch,        \* iterations of the loop of run() completed
    batch,        \* batches of the current epoch delivered by the data loader
    params,       \* version of eps_model's trainable parameters
    checkpoint,   \* <<parameter version>> held by the last saved checkpoint, <<>> if none
    t_,           \* loop variable of the sampling loop
    x,            \* local x of sample(): sequence of chain indices, <<>> outside
    scaled_data,  \* local scaled_data of sample()
    img_i,        \* loop variable i of the image loop
    save_dir,     \* local save_dir of sample(): <<timestamp>>, <<>> outside sample()
    clock,        \* last reading of datetime.now(), in seconds
    dirs,         \* file system: existing image directories <<timestamp>>
    files,        \* file system: existing image files <<timestamp, file name>>
    calls,        \* log: timestep tensors of the p_sample calls of the current sample()
    clobbered,    \* log: image files that were written over an existing file
    cnt           \* log: number of completed calls per call site

vars == <<pc, fail_at, device, n_steps, n_samples, n_batches, epochs, epoch, batch,
          params, checkpoint, t_, x, scaled_data, img_i, save_dir, clock, dirs,
          files, calls, clobbered, cnt>>

config   == <<device, n_steps, n_samples, n_batches>>
sampleLocals == <<t_, x, scaled_data, img_i, save_dir>>
fsVars   == <<clock, dirs, files, clobbered>>

Devices    == {"cpu", "cuda"}
Timestamps == 0..MaxClock

Counters == {"delivered", "zero_grad", "loss", "backward", "step", "track_loss",
             "sample_start", "p_sample", "log_sample", "img_save", "sample_return",
             "checkpoint"}

Bump(c) == [cnt EXCEPT ![c] = @ + 1]

\* ---- pure helpers -------------------------------------------------------

\* torch.randn([n_samples, ...]): the initial noise x_T, one entry per sample
Randn(n, T) == [i \in 1..n |-> T]

\* faulty variant of Timestep: the loop counts down from T instead of T-1
TimestepOffByOne(T, k) == T - k

\* t = self.n_steps - t_ - 1
Timestep(T, k) == T - k - 1

\* faulty variant of NewFull: a timestep tensor of shape (1,) instead of (n_samples,)
NewFullScalar(n, t) == [i \in 1..1 |-> t]

\* x.new_full((n_samples,), t, dtype=torch.long)
NewFull(n, t) == [i \in 1..n |-> t]

\* diffusion.p_sample(x, t): the reverse transition x_{t+1} -> x_t, per sample;
\* a sample that is not at position t+1 (or has no timestep) gives a tensor that
\* is no member of the chain (-1)
PSample(xt, t) ==
    [i \in 1..Len(xt) |->
        IF i \in DOMAIN t /\ xt[i] = t[i] + 1 THEN t[i] ELSE -1]

\* save_dir = f"./mnt/data/images_{timestamp}/"
SaveDir(timestamp) == <<timestamp>>

\* file_name = f"image_{i}.jpg"
FileName(i) == <<"image_", i, ".jpg">>

\* os.path.join(save_dir, file_name)
PathJoin(dir, name) == Append(dir, name)

\* ((x + 1) * 127.5).byte(): element-wise, one image per sample
ScaleToByte(xt) == [i \in 1..Len(xt) |-> <<"uint8", xt[i]>>]

\* ---- initial state: the process enters main() ---------------------------
Init ==
    /\ pc = "main"
    /\ fail_at = "none"
    /\ device \in Devices
    /\ n_steps \in 1..MaxSteps
    /\ n_samples \in 1..MaxSamples
    /\ n_batches \in 1..MaxBatches
    /\ epochs = EpochsDefault
    /\ epoch = 0
    /\ batch = 0
    /\ params = 0
    /\ checkpoint = <<>>
    /\ t_ = 0
    /\ x = <<>>
    /\ scaled_data = <<>>
    /\ img_i = 0
    /\ save_dir = <<>>
    /\ clock = 0
    /\ dirs = {}
    /\ files = {}
    /\ calls = <<>>
    /\ clobbered = {}
    /\ cnt = [c \in Counters |-> 0]

\* ---- main() -------------------------------------------------------------

\* experiment.create(...); configs = Configs()
MainCreate ==
    /\ pc = "main"
    /\ pc' = "main_configs"
    /\ UNCHANGED <<fail_at, config, epochs, epoch, batch, params, checkpoint,
                   sampleLocals, fsVars, calls, cnt>>

\* faulty variant of ExperimentConfigs: the dictionary's 'epochs' entry is not applied
ExperimentConfigsIgnored ==
    /\ pc = "main_configs"
    /\ pc' = "main_init"
    /\ UNCHANGED <<fail_at, config, epochs, epoch, batch, params, checkpoint,
                   sampleLocals, fsVars, calls, cnt>>

\* experiment.configs(configs, {'image_channels': 3, 'epochs': 100})
ExperimentConfigs ==
    /\ pc = "main_configs"
    /\ epochs' = EpochsOverride
    /\ pc' = "main_init"
    /\ UNCHANGED <<fail_at, config, epoch, batch, params, checkpoint,
                   sampleLocals, fsVars, calls, cnt>>

\* configs.init(); experiment.add_pytorch_models(...); experiment.start()
ConfigsInit ==
    /\ pc = "main_init"
    /\ pc' = "run_loop"
    /\ UNCHANGED <<fail_at, config, epochs, epoch, batch, params, checkpoint,
                   sampleLocals, fsVars, calls, cnt>>

\* ---- Configs.run() ------------------------------------------------------

\* for _ in monit.loop(self.epochs): enter train(), or leave the loop
RunLoop ==
    /\ pc = "run_loop"
    /\ IF epoch < epochs
       THEN /\ pc' = "train_iter"
            /\ batch' = 0
       ELSE /\ pc' = "done"
            /\ UNCHANGED batch
    /\ UNCHANGED <<fail_at, config, epochs, epoch, params, checkpoint,
                   sampleLocals, fsVars, calls, cnt>>

\* ---- Configs.train() ----------------------------------------------------

\* for inputs, labels in monit.iterate('Train', self.data_loader):
\* the next batch is delivered, or the loader is exhausted and train() returns
TrainIter ==
    /\ pc = "train_iter"
    /\ IF batch < n_batches
       THEN /\ batch' = batch + 1
            /\ cnt' = Bump("delivered")
            /\ pc' = "add_global_step"
       ELSE /\ pc' = "new_line"
            /\ UNCHANGED <<batch, cnt>>
    /\ UNCHANGED <<fail_at, config, epochs, epoch, params, checkpoint,
                   sampleLocals, fsVars, calls>>

\* tracker.add_global_step()
AddGlobalStep ==
    /\ pc = "add_global_step"
    /\ pc' = "to_device"
    /\ UNCHANGED <<fail_at, config, epochs, epoch, batch, params, checkpoint,
                   sampleLocals, fsVars, calls, cnt>>

\* data = inputs.to(self.device)
ToDevice ==
    /\ pc = "to_device"
    /\ pc' = "zero_grad"
    /\ UNCHANGED <<fail_at, config, epochs, epoch, batch, params, checkpoint,
                   sampleLocals, fsVars, calls, cnt>>

\* self.optimizer.zero_grad()
ZeroGrad ==
    /\ pc = "zero_grad"
    /\ cnt' = Bump("zero_grad")
    /\ pc' = "loss"
    /\ UNCHANGED <<fail_at, config, epochs, epoch, batch, params, checkpoint,
                   sampleLocals, fsVars, calls>>

\* loss = self.diffusion.loss(data)
Loss ==
    /\ pc = "loss"
    /\ cnt' = Bump("loss")
    /\ pc' = "backward"
    /\ UNCHANGED <<fail_at, config, epochs, epoch, batch, params, checkpoint,
                   sampleLocals, fsVars, calls>>

\* faulty variant of Backward: the optimizer step after backward() is left out
BackwardSkipStep ==
    /\ pc = "backward"
    /\ cnt' = Bump("backward")
    /\ pc' = "track_loss"
    /\ UNCHANGED <<fail_at, config, epochs, epoch, batch, params, checkpoint,
                   sampleLocals, fsVars, calls>>

\* loss.backward()
Backward ==
    /\ pc = "backward"
    /\ cnt' = Bump("backward")
    /\ pc' = "opt_step"
    /\ UNCHANGED <<fail_at, config, epochs, epoch, batch, params, checkpoint,
                   sampleLocals, fsVars, calls>>

\* self.optimizer.step(): the only statement that updates the parameters
OptimizerStep ==
    /\ pc = "opt_step"
    /\ params' = params + 1
    /\ cnt' = Bump("step")
    /\ pc' = "track_loss"
    /\ UNCHANGED <<fail_at, config, epochs, epoch, batch, checkpoint,
                   sampleLocals, fsVars, calls>>

\* tracker.save('loss', loss)
TrackLoss ==
    /\ pc = "track_loss"
    /\ cnt' = Bump("track_loss")
    /\ pc' = "train_iter"
    /\ UNCHANGED <<fail_at, config, epochs, epoch, batch, params, checkpoint,
                   sampleLocals, fsVars, calls>>

\* faulty variant of NewLine: run() saves the checkpoint before it samples
NewLineThenCheckpoint ==
    /\ pc = "new_line"
    /\ pc' = "save_checkpoint"
    /\ UNCHANGED <<fail_at, config, epochs, epoch, batch, params, checkpoint,
                   sampleLocals, fsVars, calls, cnt>>

\* tracker.new_line(), then run() calls self.sample()
NewLine ==
    /\ pc = "new_line"
    /\ pc' = "sample_timestamp"
    /\ UNCHANGED <<fail_at, config, epochs, epoch, batch, params, checkpoint,
                   sampleLocals, fsVars, calls, cnt>>

\* ---- Configs.sample() ---------------------------------------------------

\* timestamp = datetime.datetime.now().strftime('%Y%m%d%H%M%S');
\* save_dir = f"./mnt/data/images_{timestamp}/";
\* if not os.path.exists(save_dir): os.makedirs(save_dir)
SampleTimestamp ==
    /\ pc = "sample_timestamp"
    /\ \E now \in clock..MaxClock :
          /\ clock' = now
          /\ save_dir' = SaveDir(now)
          /\ dirs' = IF SaveDir(now) \in dirs THEN dirs ELSE dirs \cup {SaveDir(now)}
    /\ calls' = <<>>
    /\ cnt' = Bump("sample_start")
    /\ pc' = "sample_randn"
    /\ UNCHANGED <<fail_at, config, epochs, epoch, batch, params, checkpoint,
                   t_, x, scaled_data, img_i, files, clobbered>>

\* x = torch.randn([self.n_samples, ...]); the sampling loop starts at t_ = 0
SampleRandn ==
    /\ pc = "sample_randn"
    /\ x' = Randn(n_samples, n_steps)
    /\ t_' = 0
    /\ pc' = "sample_loop"
    /\ UNCHANGED <<fail_at, config, epochs, epoch, batch, params, checkpoint,
                   scaled_data, img_i, save_dir, fsVars, calls, cnt>>

\* for t_ in monit.iterate('Sample', self.n_steps): next iteration, or loop end
SampleLoop ==
    /\ pc = "sample_loop"
    /\ pc' = IF t_ < n_steps THEN "p_sample" ELSE "log_sample"
    /\ UNCHANGED <<fail_at, config, epochs, epoch, batch, params, checkpoint,
                   sampleLocals, fsVars, calls, cnt>>

\* faulty variant of SampleStep: the reverse step also updates the parameters
SampleStepUpdatesParams ==
    /\ pc = "p_sample"
    /\ LET t == NewFull(n_samples, Timestep(n_steps, t_))
       IN  /\ x' = PSample(x, t)
           /\ calls' = Append(calls, t)
    /\ t_' = t_ + 1
    /\ params' = params + 1
    /\ cnt' = Bump("p_sample")
    /\ pc' = "sample_loop"
    /\ UNCHANGED <<fail_at, config, epochs, epoch, batch, checkpoint,
                   scaled_data, img_i, save_dir, fsVars>>

\* t = self.n_steps - t_ - 1
\* x = self.diffusion.p_sample(x, x.new_full((self.n_samples,), t, ...))
SampleStep ==
    /\ pc = "p_sample"
    /\ LET t == NewFull(n_samples, Timestep(n_steps, t_))
       IN  /\ x' = PSample(x, t)
           /\ calls' = Append(calls, t)
    /\ t_' = t_ + 1
    /\ cnt' = Bump("p_sample")
    /\ pc' = "sample_loop"
    /\ UNCHANGED <<fail_at, config, epochs, epoch, batch, params, checkpoint,
                   scaled_data, img_i, save_dir, fsVars>>

\* tracker.save('sample', x)
LogSample ==
    /\ pc = "log_sample"
    /\ cnt' = Bump("log_sample")
    /\ pc' = "scale"
    /\ UNCHANGED <<fail_at, config, epochs, epoch, batch, params, checkpoint,
                   sampleLocals, fsVars, calls>>

\* scaled_data = ((x + 1) * 127.5).byte(); the image loop starts at i = 0
Scale ==
    /\ pc = "scale"
    /\ scaled_data' = ScaleToByte(x)
    /\ img_i' = 0
    /\ pc' = "img_loop"
    /\ UNCHANGED <<fail_at, config, epochs, epoch, batch, params, checkpoint,
                   t_, x, save_dir, fsVars, calls, cnt>>

\* for i, img_tensor in enumerate(scaled_data): next image, or sample() returns
\* to run(), which goes on to experiment.save_checkpoint()
ImgLoop ==
    /\ pc = "img_loop"
    /\ IF img_i < Len(scaled_data)
       THEN /\ pc' = "img_numpy"
            /\ UNCHANGED <<sampleLocals, cnt>>
       ELSE /\ pc' = "save_checkpoint"
            /\ t_' = 0
            /\ x' = <<>>
            /\ scaled_data' = <<>>
            /\ img_i' = 0
            /\ save_dir' = <<>>
            /\ cnt' = Bump("sample_return")
    /\ UNCHANGED <<fail_at, config, epochs, epoch, batch, params, checkpoint,
                   fsVars, calls>>

\* img_array = np.transpose(img_tensor.numpy(), (1, 2, 0));
\* img = Image.fromarray(img_array, 'RGB')
\* Tensor.numpy() raises TypeError for a tensor that lives on a CUDA device
ImgNumpy ==
    /\ pc = "img_numpy"
    /\ IF device = "cuda"
       THEN /\ pc' = "failed"
            /\ fail_at' = "img_numpy"
       ELSE /\ pc' = "img_save"
            /\ UNCHANGED fail_at
    /\ UNCHANGED <<config, epochs, epoch, batch, params, checkpoint,
                   sampleLocals, fsVars, calls, cnt>>

\* file_name = f"image_{i}.jpg"; img.save(os.path.join(save_dir, file_name))
ImgSave ==
    /\ pc = "img_save"
    /\ LET path == PathJoin(save_dir, FileName(img_i))
       IN  /\ files' = files \cup {path}
           /\ clobbered' = IF path \in files THEN clobbered \cup {path} ELSE clobbered
    /\ img_i' = img_i + 1
    /\ cnt' = Bump("img_save")
    /\ pc' = "img_loop"
    /\ UNCHANGED <<fail_at, config, epochs, epoch, batch, params, checkpoint,
                   t_, x, scaled_data, save_dir, clock, dirs, calls>>

\* ---- Configs.run(), after sample() --------------------------------------

\* experiment.save_checkpoint(); the iteration of the epoch loop ends
SaveCheckpoint ==
    /\ pc = "save_checkpoint"
    /\ checkpoint' = <<params>>
    /\ epoch' = epoch + 1
    /\ cnt' = Bump("checkpoint")
    /\ pc' = "run_loop"
    /\ UNCHANGED <<fail_at, config, epochs, batch, params,
                   sampleLocals, fsVars, calls>>

\* ---- exceptions ---------------------------------------------------------

\* call sites of train(): loading a batch and the statements of the batch body
TrainSites == {"train_iter", "add_global_step", "to_device", "zero_grad", "loss",
               "backward", "opt_step", "track_loss"}

\* call sites of sample()
SampleSites == {"sample_timestamp", "sample_randn", "p_sample", "log_sample",
                "scale", "img_numpy", "img_save"}

\* call sites of run() itself
RunSites == {"new_line", "save_checkpoint"}

\* the tracker.save calls: the batch loss and the sample batch
TelemetrySites == {"track_loss", "log_sample"}

Fallible == TrainSites \cup SampleSites \cup RunSites

\* faulty variant of Raise: the exception is caught and recorded, and the run goes on
\* with the next batch (in train()) or with the checkpoint (in sample())
RaiseSwallowed ==
    /\ pc \in Fallible
    /\ pc = "train_iter" => batch < n_batches
    /\ pc' = IF pc \in TrainSites THEN "train_iter"
             ELSE IF pc \in SampleSites THEN "save_checkpoint" ELSE "failed"
    /\ fail_at' = pc
    /\ UNCHANGED <<config, epochs, epoch, batch, params, checkpoint,
                   sampleLocals, fsVars, calls, cnt>>

\* The call at the current site raises.  train(), sample(), run() and main()
\* contain no try/except: the exception unwinds all of them and ends the run.
Raise ==
    /\ pc \in Fallible
    /\ pc = "train_iter" => batch < n_batches
    /\ pc' = "failed"
    /\ fail_at' = pc
    /\ UNCHANGED <<config, epochs, epoch, batch, params, checkpoint,
                   sampleLocals, fsVars, calls, cnt>>

\* ---- specifications -----------------------------------------------------

\* the statements of the program
Step ==
    \/ MainCreate \/ ExperimentConfigs \/ ConfigsInit
    \/ RunLoop
    \/ TrainIter \/ AddGlobalStep \/ ToDevice \/ ZeroGrad \/ Loss \/ Backward
    \/ OptimizerStep \/ TrackLoss \/ NewLine
    \/ SampleTimestamp \/ SampleRandn \/ SampleLoop \/ SampleStep \/ LogSample
    \/ Scale \/ ImgLoop \/ ImgNumpy \/ ImgSave
    \/ SaveCheckpoint

Next == Step \/ Raise

Spec == Init /\ [][Next]_vars

\* The interpreter runs the single thread of control until it returns or raises.
FairSpec == Spec /\ WF_vars(Step)

\* ---- properties ---------------------------------------------------------

\* positions inside sample() after the sampling loop
AfterLoop == {"log_sample", "scale", "img_loop", "img_numpy", "img_save"}

\* an invocation of sample() has started and not returned
InSample == cnt["sample_start"] > cnt["sample_return"]

\* the scalar timestep of the k-th p_sample call of the current sample()
CallTimestep(k) == calls[k][1]

\* a raised exception ends the run: nothing but the log of the failure is left
AbortIsFinal ==
    fail_at # "none" =>
        /\ pc = "failed" /\ pc' = "failed"
        /\ UNCHANGED <<cnt, epoch, batch, params, checkpoint, dirs, files, calls, x>>

\* C1: one sample() that does not fail calls p_sample exactly n_steps times, with
\* the timesteps n_steps-1, n_steps-2, ..., 0 in that order, each call on the x
\* the previous call returned (the first on the initial noise x_T).
C1_SampleVisitsEveryTimestepOnce ==
    /\ Len(calls) <= n_steps
    /\ \A k \in 1..Len(calls) : Len(calls[k]) > 0 /\ CallTimestep(k) = n_steps - k
    /\ pc \in {"sample_loop", "p_sample"} =>
          /\ Len(calls) = t_
          /\ x = Randn(n_samples, n_steps - Len(calls))
    /\ pc \in AfterLoop => Len(calls) = n_steps /\ x = Randn(n_samples, 0)
    /\ cnt["p_sample"] =
          n_steps * cnt["sample_return"] + (IF InSample THEN Len(calls) ELSE 0)

C1_Witness ==
    /\ pc = "log_sample"
    /\ n_steps = MaxSteps
    /\ Len(calls) = MaxSteps
    /\ CallTimestep(1) = MaxSteps - 1
    /\ CallTimestep(MaxSteps) = 0

\* C2: in an epoch that does not fail, all batches are trained, then sample()
\* runs once, then the checkpoint is saved once; no checkpoint precedes the end
\* of its epoch's sampling and no batch of the next epoch precedes the checkpoint.
C2_EpochOrder ==
    /\ cnt["checkpoint"] = epoch
    /\ cnt["checkpoint"] <= cnt["sample_return"]
    /\ cnt["sample_return"] <= cnt["sample_start"]
    /\ cnt["sample_start"] <= cnt["checkpoint"] + 1
    /\ cnt["track_loss"] >= cnt["sample_start"] * n_batches
    /\ cnt["delivered"] <= (cnt["checkpoint"] + 1) * n_batches
    /\ pc = "save_checkpoint" => cnt["sample_return"] = cnt["checkpoint"] + 1

C2_Witness ==
    /\ pc = "add_global_step"
    /\ n_batches = MaxBatches
    /\ cnt["checkpoint"] = 2
    /\ cnt["sample_return"] = 2
    /\ cnt["delivered"] = 2 * MaxBatches + 1

\* C3: train() handles one batch at a time, each in the order zero_grad, loss,
\* backward, optimizer step, track loss; one optimizer step per delivered batch,
\* and the next batch's loss never starts before this batch's optimizer step.
C3_BatchOrder ==
    /\ cnt["track_loss"] <= cnt["step"]
    /\ cnt["step"] <= cnt["backward"]
    /\ cnt["backward"] <= cnt["loss"]
    /\ cnt["loss"] <= cnt["zero_grad"]
    /\ cnt["zero_grad"] <= cnt["delivered"]
    /\ cnt["delivered"] <= cnt["track_loss"] + 1
    /\ pc = "loss" => cnt["step"] = cnt["delivered"] - 1
    /\ pc \in {"train_iter", "new_line"} => cnt["step"] = cnt["delivered"]

C3_Witness ==
    /\ pc = "loss"
    /\ batch = 2
    /\ cnt["delivered"] = 2
    /\ cnt["step"] = 1

\* C4: the parameters change only in optimizer.step(): sample() and the loss
\* leave them alone, so sample() ends with the parameters of the last optimizer
\* step of the preceding train(), and these are what the checkpoint holds.
C4_ParamsOnlyByOptimizer ==
    /\ params = cnt["step"]
    /\ pc \in (SampleSites \cup {"sample_loop", "img_loop", "save_checkpoint"}) =>
          params = (epoch + 1) * n_batches
    /\ cnt["checkpoint"] > 0 => checkpoint = <<cnt["checkpoint"] * n_batches>>
    /\ cnt["checkpoint"] = 0 => checkpoint = <<>>

C4_Witness ==
    /\ pc = "run_loop"
    /\ n_batches = MaxBatches
    /\ n_steps = MaxSteps
    /\ cnt["sample_return"] = 2
    /\ checkpoint = <<2 * MaxBatches>>

\* C5: a batch that fails to load or compute in train() ends the run: it is not
\* retried, no further batch is processed, neither sample() nor the checkpoint of
\* that epoch happens, and no later epoch starts.
C5_TrainFailureAborts ==
    /\ [](fail_at \in TrainSites =>
            /\ pc = "failed"
            /\ cnt["delivered"] = epoch * n_batches + batch
            /\ cnt["sample_start"] = epoch
            /\ cnt["checkpoint"] = epoch)
    /\ [][(fail_at \in TrainSites) => AbortIsFinal]_vars

C5_Witness ==
    /\ pc = "failed"
    /\ fail_at = "loss"
    /\ n_batches = MaxBatches
    /\ epoch = 1
    /\ batch = 1

\* C6: a p_sample call that fails at timestep t ends the sampling loop and the
\* run: no reverse step below t runs, the intermediate x is neither logged nor
\* written to an image file, and that epoch's checkpoint is not saved.
C6_SampleFailureAborts ==
    /\ [](fail_at = "p_sample" =>
            /\ pc = "failed"
            /\ Len(calls) = t_
            /\ \A k \in 1..Len(calls) : CallTimestep(k) > Timestep(n_steps, t_)
            /\ cnt["log_sample"] = cnt["sample_return"]
            /\ cnt["img_save"] = cnt["sample_return"] * n_samples
            /\ cnt["checkpoint"] = cnt["sample_return"]
            /\ cnt["checkpoint"] = epoch)
    /\ [][(fail_at = "p_sample") => AbortIsFinal]_vars

C6_Witness ==
    /\ pc = "failed"
    /\ fail_at = "p_sample"
    /\ n_steps = MaxSteps
    /\ t_ = 1
    /\ epoch = 1

\* C7: a failing telemetry call (tracking the batch loss, logging the sample
\* batch) never ends the run.
C7_TelemetryNeverAborts ==
    ~(pc = "failed" /\ fail_at \in TelemetrySites)

\* C8: every p_sample call of sample() gets a timestep tensor with n_samples
\* entries, one per sample of x, all equal to the t of the iteration; the samples
\* of the batch are always at the same position of the reverse chain.
C8_BatchSharedTimestep ==
    /\ \A k \in 1..Len(calls) :
          /\ Len(calls[k]) = n_samples
          /\ \A i \in 1..Len(calls[k]) : calls[k][i] = Timestep(n_steps, k - 1)
    /\ pc \in ({"sample_loop", "p_sample"} \cup AfterLoop) =>
          /\ Len(x) = n_samples
          /\ \A i, j \in 1..Len(x) : x[i] = x[j]

C8_Witness ==
    /\ pc = "sample_loop"
    /\ n_samples = MaxSamples
    /\ n_steps = MaxSteps
    /\ Len(calls) = MaxSteps
    /\ Len(calls[MaxSteps]) = MaxSamples

\* C9: with a finite data source and no failing call run() terminates, having
\* run exactly EpochsOverride epochs (the value main() passes, not the class
\* default): that many times n_batches optimizer steps, that many sample() calls
\* (times n_steps reverse steps) and checkpoints; epochs is fixed during the run.
C9_RunTerminates ==
    /\ <>(pc \in {"done", "failed"})
    /\ [](pc = "done" =>
            /\ fail_at = "none"
            /\ epochs = EpochsOverride
            /\ epoch = EpochsOverride
            /\ cnt["step"] = EpochsOverride * n_batches
            /\ cnt["sample_start"] = EpochsOverride
            /\ cnt["sample_return"] = EpochsOverride
            /\ cnt["p_sample"] = EpochsOverride * n_steps
            /\ cnt["checkpoint"] = EpochsOverride)
    /\ [][pc \notin {"main", "main_configs"} => epochs' = epochs]_vars

C9_Witness ==
    /\ pc = "done"
    /\ n_batches = MaxBatches
    /\ n_steps = MaxSteps
    /\ cnt["checkpoint"] = EpochsOverride
    /\ cnt["step"] = EpochsOverride * MaxBatches

\* the image files of directory d
FilesIn(d) == {f \in files : SubSeq(f, 1, Len(d)) = d}

\* C10: a sample() that succeeds writes exactly the n_samples files image_0.jpg
\* .. image_{n_samples-1}.jpg into the directory named after its start timestamp,
\* and no image file of an earlier sample() is ever written over by a later one.
C10_ImagesNeverOverwritten ==
    /\ \A d \in dirs :
          FilesIn(d) \subseteq {PathJoin(d, FileName(i)) : i \in 0..(n_samples - 1)}
    /\ (pc = "img_loop" /\ img_i = n_samples) =>
          FilesIn(save_dir) = {PathJoin(save_dir, FileName(i)) : i \in 0..(n_samples - 1)}
    /\ clobbered = {}

====
